---- MODULE Spec2Model ----
(***************************************************************************)
(* Two-level cache (L1 in-memory dict, L2 SQLite table) in front of the    *)
(* RAG pipeline `ask`, as implemented in main1.py, together with the       *)
(* /query handler and the /updates fan-out over analyze_update.            *)
(*                                                                         *)
(* Coroutines run on one asyncio event loop: the code between two awaits   *)
(* is one atomic step.  `ask` runs in a worker thread and touches no cache *)
(* state, so a call to cached_ask is two steps: entry up to the            *)
(* `await asyncio.to_thread(ask, query)`, and the continuation after it.   *)
(*                                                                         *)
(* Text is a sequence of characters; None is Python's None.                *)
(***************************************************************************)
EXTENDS Integers, Sequences, FiniteSets, TLC

\* ------------------------------------------------------------------ bounds
NumTasks == 2          \* concurrent /query requests
MaxLen   == 1          \* longest text the pipeline returns
MaxCalls == 3          \* cached_ask calls made by /query in one behaviour
NumItems == 2          \* most items fetch_dgms_updates hands to /updates

\* L1_CACHE_SIZE is 100 in main1.py:35; the model keeps the comparison
\* `len(store) >= L1_CACHE_SIZE` and scales the number down so that a
\* full store and an eviction are reachable.
L1_CACHE_SIZE == 2

Chars   == {" ", "a"}
None    == <<"None">>
Pending == [state |-> "pending", results |-> <<>>]
Queries == {<<"x">>, <<"y">>, <<"z">>}
EmptyQuery == <<>>

RECURSIVE SeqsUpTo(_)
SeqsUpTo(n) ==
    IF n = 0 THEN {<<>>}
    ELSE LET S == SeqsUpTo(n - 1)
         IN  S \cup {Append(s, c) : s \in {x \in S : Len(x) = n - 1}, c \in Chars}

\* what generate_answer / response.text may hand back
RawTexts == SeqsUpTo(MaxLen)

VARIABLES
    lru_cache_store,   \* main1.py:36  ordered dict: sequence of [q, r]
    db,                \* main1.py:52  table cache: query -> response
    pc,                \* per request: "idle" | "asking" | "done" | "failed"
                       \*   | "cancelled" | "abandoned" (cancellation only)
    key,               \* per request: the query passed to cached_ask
    ret,               \* per request: value returned / exception kind
    effects,           \* per request: what this call has touched so far
    asked,             \* per request: the text its pipeline run handed back
    firstRet,          \* history: query -> the first text a cached_ask returned for it
    putLog,            \* history: queries given to set_to_l1 since the store was created
    calls,             \* number of cached_ask calls begun by /query
    updates,           \* GET /updates: the items fetch_dgms_updates returned
    fpc,               \* per item: "fetching" | "resolving" | "returned" | "raised"
    out,               \* per item: the dict analyze_update returned
    order,             \* item indices in the order their coroutines finished
    analyzed_updates   \* the gather: [state: "pending" | "ok" | "raised", results]

cachevars == <<lru_cache_store, db, pc, key, ret, effects>>
fanvars   == <<updates, fpc, out, order, analyzed_updates>>
vars      == <<cachevars, calls, fanvars, putLog, firstRet, asked>>

Tasks == DOMAIN pc

\* ------------------------------------------------------------ pure helpers
\* str.strip() on a sequence of characters
RECURSIVE LStrip(_)
LStrip(s) == IF s # <<>> /\ Head(s) = " " THEN LStrip(Tail(s)) ELSE s

RECURSIVE RStrip(_)
RStrip(s) ==
    IF s # <<>> /\ s[Len(s)] = " " THEN RStrip(SubSeq(s, 1, Len(s) - 1)) ELSE s

\* faulty variant: the text is kept as the pipeline returned it
strip_none(s) == s

strip(s) == RStrip(LStrip(s))

\* Python truthiness of an Optional[str]: None and "" are falsy
Truthy(v) == v # None /\ v # <<>>

\* dict operations on an insertion-ordered dict
DictHas(d, k) == \E i \in DOMAIN d : d[i].q = k
DictGet(d, k) == IF DictHas(d, k) THEN d[CHOOSE i \in DOMAIN d : d[i].q = k].r ELSE None
DictSet(d, k, v) ==
    IF DictHas(d, k)
    THEN [i \in DOMAIN d |-> IF d[i].q = k THEN [q |-> k, r |-> v] ELSE d[i]]
    ELSE Append(d, [q |-> k, r |-> v])

get_from_l1(store, query) == DictGet(store, query)

Range(sq) == {sq[i] : i \in DOMAIN sq}

\* faulty variant: evicts only once the store is already over capacity
set_to_l1_gt(store, query, response) ==
    LET s1 == IF Len(store) > L1_CACHE_SIZE THEN Tail(store) ELSE store
    IN  DictSet(s1, query, response)

\* faulty variant: a full store drops its newest entry
set_to_l1_newest(store, query, response) ==
    LET s1 == IF Len(store) >= L1_CACHE_SIZE THEN SubSeq(store, 1, Len(store) - 1) ELSE store
    IN  DictSet(s1, query, response)

set_to_l1(store, query, response) ==
    LET s1 == IF Len(store) >= L1_CACHE_SIZE THEN Tail(store) ELSE store
    IN  DictSet(s1, query, response)

get_from_l2(tbl, query) == IF query \in DOMAIN tbl THEN tbl[query] ELSE None

\* faulty variant: the write replaces the table's content
set_to_l2_fresh(tbl, query, response) == [k \in {query} |-> response]

\* faulty variant: INSERT OR IGNORE, a present row keeps its old response
set_to_l2_ignore(tbl, query, response) ==
    [k \in DOMAIN tbl \cup {query} |-> IF k \in DOMAIN tbl THEN tbl[k] ELSE response]

set_to_l2(tbl, query, response) ==
    [k \in DOMAIN tbl \cup {query} |-> IF k = query THEN response ELSE tbl[k]]

\* faulty variant: L1 is written first, so a failing L2 write leaves it behind
SaveBoth_L1First(store, tbl, query, result_str, l2ok) ==
    IF l2ok
    THEN [l1 |-> set_to_l1(store, query, result_str),
          l2 |-> set_to_l2(tbl, query, result_str), saved |-> TRUE]
    ELSE [l1 |-> set_to_l1(store, query, result_str), l2 |-> tbl, saved |-> FALSE]

\* main1.py:92-94  "Save to both caches"; l2ok = FALSE when sqlite raises,
\* which leaves the table as it was and skips the rest of the coroutine.
SaveBoth(store, tbl, query, result_str, l2ok) ==
    IF l2ok
    THEN [l1 |-> set_to_l1(store, query, result_str),
          l2 |-> set_to_l2(tbl, query, result_str), saved |-> TRUE]
    ELSE [l1 |-> store, l2 |-> tbl, saved |-> FALSE]

\* history helper: the first text returned for each query
NoteReturn(fr, status, q, v) ==
    IF status # "done" \/ q \in DOMAIN fr THEN fr
    ELSE [k \in DOMAIN fr \cup {q} |-> IF k = q THEN v ELSE fr[k]]

\* history helper: the queries given to set_to_l1 since the store was
\* created, in call order (kept up to L1_CACHE_SIZE+2 of them)
Logged(log, q) == IF Len(log) > L1_CACHE_SIZE + 1 THEN log ELSE Append(log, q)

\* ---------------------------------------------------------------- actions
Init ==
    /\ lru_cache_store = <<>>
    /\ db = <<>>
    /\ pc = [t \in 1..NumTasks |-> "idle"]
    /\ key = [t \in 1..NumTasks |-> None]
    /\ ret = [t \in 1..NumTasks |-> None]
    /\ effects = [t \in 1..NumTasks |-> {}]
    /\ asked = [t \in 1..NumTasks |-> None]
    /\ putLog = <<>>
    /\ firstRet = <<>>
    /\ calls = 0
    /\ updates = <<>>
    /\ fpc = <<>>
    /\ out = <<>>
    /\ order = <<>>
    /\ analyzed_updates = Pending

\* cached_ask from its first line to the first await (main1.py:76-89)
CachedAskEnter(t, query, l2ok) ==
    /\ key' = [key EXCEPT ![t] = query]
    /\ db' = db
    /\ LET r1 == get_from_l1(lru_cache_store, query)
           r2 == get_from_l2(db, query)
       IN  IF Truthy(r1)
           THEN /\ pc' = [pc EXCEPT ![t] = "done"]
                /\ ret' = [ret EXCEPT ![t] = r1]
                /\ effects' = [effects EXCEPT ![t] = {"l1r"}]
                /\ UNCHANGED lru_cache_store
           ELSE IF ~l2ok
           THEN /\ pc' = [pc EXCEPT ![t] = "failed"]
                /\ ret' = [ret EXCEPT ![t] = <<"StorageUnavailable">>]
                /\ effects' = [effects EXCEPT ![t] = {"l1r", "l2r"}]
                /\ UNCHANGED lru_cache_store
           ELSE IF Truthy(r2)
           THEN /\ lru_cache_store' = set_to_l1(lru_cache_store, query, r2)
                /\ pc' = [pc EXCEPT ![t] = "done"]
                /\ ret' = [ret EXCEPT ![t] = r2]
                /\ effects' = [effects EXCEPT ![t] = {"l1r", "l2r", "l1w"}]
           ELSE /\ pc' = [pc EXCEPT ![t] = "asking"]
                /\ ret' = [ret EXCEPT ![t] = None]
                /\ effects' = [effects EXCEPT ![t] = {"l1r", "l2r", "ask"}]
                /\ UNCHANGED lru_cache_store

\* cached_ask's return and the handler's return are one step of the event
\* loop: while a request is "done" or "failed" (the point where its result
\* can be looked at) nothing else runs before Respond.
Settled == \A u \in Tasks : pc[u] \in {"idle", "asking", "cancelled"}

\* faulty variant: no `if not query` test, every query goes to cached_ask
QueryAgent_NoGuard(t, query, l2ok) ==
    /\ Settled
    /\ pc[t] = "idle"
    /\ calls < MaxCalls
    /\ calls' = calls + 1
    /\ CachedAskEnter(t, query, l2ok)
    /\ firstRet' = NoteReturn(firstRet, pc'[t], query, ret'[t])
    /\ UNCHANGED <<fanvars, putLog, asked>>

\* POST /query (main1.py:98-106), up to the first suspension
QueryAgent(t, query, l2ok) ==
    /\ Settled
    /\ pc[t] = "idle"
    /\ IF query = EmptyQuery
       THEN /\ pc' = [pc EXCEPT ![t] = "done"]
            /\ ret' = [ret EXCEPT ![t] = <<"Query is empty.">>]
            /\ UNCHANGED <<lru_cache_store, db, key, effects, calls, firstRet>>
       ELSE /\ calls < MaxCalls
            /\ calls' = calls + 1
            /\ CachedAskEnter(t, query, l2ok)
            /\ firstRet' = NoteReturn(firstRet, pc'[t], query, ret'[t])
    /\ UNCHANGED <<fanvars, putLog, asked>>

\* the worker thread returns `raw`; cached_ask resumes (main1.py:89-95)
CachedAskResume(t, raw, l2ok) ==
    /\ pc[t] = "asking"
    /\ LET result_str == strip(raw)
           s == SaveBoth(lru_cache_store, db, key[t], result_str, l2ok)
       IN  /\ lru_cache_store' = s.l1
           /\ db' = s.l2
           /\ IF s.saved
              THEN /\ pc' = [pc EXCEPT ![t] = "done"]
                   /\ ret' = [ret EXCEPT ![t] = result_str]
                   /\ effects' = [effects EXCEPT ![t] = @ \cup {"l2w", "l1w"}]
                   /\ key' = key
              ELSE /\ pc' = [pc EXCEPT ![t] = "failed"]
                   /\ ret' = [ret EXCEPT ![t] = <<"StorageUnavailable">>]
                   /\ UNCHANGED <<effects, key>>

\* faulty variant: the failure is stored as an empty answer before it is raised
CachedAskRaise_Cached(t) ==
    /\ pc[t] = "asking"
    /\ pc' = [pc EXCEPT ![t] = "failed"]
    /\ ret' = [ret EXCEPT ![t] = <<"PipelineFailed">>]
    /\ db' = set_to_l2(db, key[t], <<>>)
    /\ lru_cache_store' = set_to_l1(lru_cache_store, key[t], <<>>)
    /\ UNCHANGED <<key, effects>>

\* search_faiss or generate_answer raises inside ask (agent.py:127-130);
\* the exception leaves cached_ask at the await (main1.py:89)
CachedAskRaise(t) ==
    /\ pc[t] = "asking"
    /\ pc' = [pc EXCEPT ![t] = "failed"]
    /\ ret' = [ret EXCEPT ![t] = <<"PipelineFailed">>]
    /\ UNCHANGED <<lru_cache_store, db, key, effects>>

\* /query: the awaited cached_ask finishes and the handler answers
AskReturn(t, raw, l2ok) ==
    /\ Settled
    /\ CachedAskResume(t, raw, l2ok)
    /\ firstRet' = NoteReturn(firstRet, pc'[t], key[t], ret'[t])
    /\ asked' = [asked EXCEPT ![t] = raw]
    /\ UNCHANGED <<calls, fanvars, putLog>>

AskRaise(t) ==
    /\ Settled
    /\ CachedAskRaise(t)
    /\ UNCHANGED <<calls, fanvars, putLog, firstRet, asked>>

\* the response (or the error) has gone out; the slot takes the next request
Respond(t) ==
    /\ pc[t] \in {"done", "failed", "abandoned"}
    /\ pc' = [pc EXCEPT ![t] = "idle"]
    /\ key' = [key EXCEPT ![t] = None]
    /\ ret' = [ret EXCEPT ![t] = None]
    /\ effects' = [effects EXCEPT ![t] = {}]
    /\ asked' = [asked EXCEPT ![t] = None]
    /\ UNCHANGED <<lru_cache_store, db, calls, fanvars, putLog, firstRet>>

\* the process dies and is started again: module globals are rebuilt
\* (main1.py:36 empty dict), rag_cache.db is reopened (main1.py:49-59)
Restart ==
    /\ Settled
    /\ lru_cache_store' = <<>>
    /\ pc' = [t \in Tasks |-> "idle"]
    /\ key' = [t \in Tasks |-> None]
    /\ ret' = [t \in Tasks |-> None]
    /\ effects' = [t \in Tasks |-> {}]
    /\ asked' = [t \in Tasks |-> None]
    /\ UNCHANGED <<db, calls, fanvars, putLog, firstRet>>

\* the process dies after set_to_l2 committed and before set_to_l1 ran
\* (between main1.py:93 and main1.py:94)
CrashMidSave(t, raw) ==
    /\ Settled
    /\ pc[t] = "asking"
    /\ db' = set_to_l2(db, key[t], strip(raw))
    /\ lru_cache_store' = <<>>
    /\ pc' = [u \in Tasks |-> "idle"]
    /\ key' = [u \in Tasks |-> None]
    /\ ret' = [u \in Tasks |-> None]
    /\ effects' = [u \in Tasks |-> {}]
    /\ asked' = [u \in Tasks |-> None]
    /\ UNCHANGED <<calls, fanvars, putLog, firstRet>>

Next ==
    \/ \E t \in Tasks, q \in Queries \cup {EmptyQuery}, l2ok \in BOOLEAN : QueryAgent(t, q, l2ok)
    \/ \E t \in Tasks, raw \in RawTexts, l2ok \in BOOLEAN : AskReturn(t, raw, l2ok)
    \/ \E t \in Tasks : AskRaise(t)
    \/ \E t \in Tasks : Respond(t)
    \/ Restart
    \/ \E t \in Tasks, raw \in RawTexts : CrashMidSave(t, raw)

Spec == Init /\ [][Next]_vars

\* --------------------------------------------- cancellation of a request
\* The task awaiting cached_ask is cancelled while ask runs in its thread:
\* CancelledError is raised at the await (main1.py:89) and the lines after
\* it never run.  The thread itself cannot be cancelled and runs on.
Cancel(t) ==
    /\ Settled
    /\ pc[t] = "asking"
    /\ pc' = [pc EXCEPT ![t] = "cancelled"]
    /\ ret' = [ret EXCEPT ![t] = <<"CancelledError">>]
    /\ UNCHANGED <<lru_cache_store, db, key, effects, asked, calls, fanvars, putLog, firstRet>>

\* the thread of a cancelled call finishes: ask returned `raw`, or raised
\* (raw = None); nobody awaits the result any more
ThreadEnds(t, raw) ==
    /\ Settled
    /\ pc[t] = "cancelled"
    /\ pc' = [pc EXCEPT ![t] = "abandoned"]
    /\ asked' = [asked EXCEPT ![t] = raw]
    /\ UNCHANGED <<lru_cache_store, db, key, ret, effects, calls, fanvars, putLog, firstRet>>

NextCancel ==
    \/ Next
    \/ \E t \in Tasks : Cancel(t)
    \/ \E t \in Tasks, raw \in RawTexts \cup {None} : ThreadEnds(t, raw)

SpecCancel == Init /\ [][NextCancel]_vars

\* ------------------------------------------------- GET /updates (fan-out)
Item(t) == [title |-> <<t>>, link |-> <<"http://", t>>, published |-> <<"2024">>]
ItemSet == {Item("A"), Item("B")}

RECURSIVE ItemSeqs(_)
ItemSeqs(n) ==
    IF n = 0 THEN {<<>>}
    ELSE LET S == ItemSeqs(n - 1)
         IN  S \cup {Append(s, it) : s \in {x \in S : Len(x) = n - 1}, it \in ItemSet}

\* main1.py:118-124: the three ways `content` is set
Content(fetch) ==
    CASE fetch = "text"   -> <<"para">>
      [] fetch = "notext" -> <<"(No text found.)">>
      [] fetch = "error"  -> <<"(Could not fetch full article text.)">>

\* main1.py:126-132: the f-string, as a concatenation
Prompt(item, content) ==
    <<"Title: ">> \o item.title \o <<"Published: ">> \o item.published
        \o <<"Link: ">> \o item.link \o <<"Content: ">> \o content

\* faulty variant: no try/except, the exception leaves analyze_update
AnalyzeOutcome_NoCatch(item, status, value) ==
    IF status = "failed"
    THEN [fpc |-> "raised",
          out |-> [title |-> item.title, link |-> item.link,
                   published |-> item.published, danger_analysis |-> <<>>]]
    ELSE [fpc |-> "returned",
          out |-> [title |-> item.title, link |-> item.link,
                   published |-> item.published, danger_analysis |-> value]]

\* main1.py:134-144: try/except around cached_ask, then the dict
AnalyzeOutcome(item, status, value) ==
    LET output == IF status = "failed" THEN <<"Error: ">> \o value ELSE value
    IN  [fpc |-> "returned",
         out |-> [title |-> item.title, link |-> item.link,
                  published |-> item.published, danger_analysis |-> output]]

\* faulty variant: results in the order the coroutines finished
gather_as_completed(outs, finished) == [j \in DOMAIN finished |-> outs[finished[j]]]

\* asyncio.gather(*coros): results in the order of the arguments
gather(outs, finished) == [i \in DOMAIN outs |-> outs[i]]

InitFan ==
    /\ lru_cache_store = <<>>
    /\ db = <<>>
    /\ updates \in ItemSeqs(NumItems)
    /\ pc = [t \in DOMAIN updates |-> "idle"]
    /\ key = [t \in DOMAIN updates |-> None]
    /\ ret = [t \in DOMAIN updates |-> None]
    /\ effects = [t \in DOMAIN updates |-> {}]
    /\ asked = [t \in DOMAIN updates |-> None]
    /\ putLog = <<>>
    /\ firstRet = <<>>
    /\ calls = 0
    /\ fpc = [t \in DOMAIN updates |-> "fetching"]
    /\ out = [t \in DOMAIN updates |-> None]
    /\ order = <<>>
    /\ analyzed_updates = Pending

\* the rest of analyze_update once cached_ask has returned or raised
AnalyzeFinish(i) ==
    IF pc'[i] = "asking"
    THEN /\ fpc' = [fpc EXCEPT ![i] = "resolving"]
         /\ UNCHANGED <<out, order>>
    ELSE LET o == AnalyzeOutcome(updates[i], pc'[i], ret'[i])
         IN  /\ fpc' = [fpc EXCEPT ![i] = o.fpc]
             /\ out' = [out EXCEPT ![i] = o.out]
             /\ order' = Append(order, i)

\* requests.get comes back (or raises); analyze_update runs on to the
\* await inside cached_ask, or to its return on a cache hit (main1.py:113-144)
AnalyzeUpdate(i, fetch, l2ok) ==
    /\ fpc[i] = "fetching"
    /\ CachedAskEnter(i, Prompt(updates[i], Content(fetch)), l2ok)
    /\ AnalyzeFinish(i)
    /\ UNCHANGED <<calls, updates, analyzed_updates, putLog, firstRet, asked>>

AnalyzeAskReturn(i, raw, l2ok) ==
    /\ fpc[i] = "resolving"
    /\ CachedAskResume(i, raw, l2ok)
    /\ AnalyzeFinish(i)
    /\ UNCHANGED <<calls, updates, analyzed_updates, putLog, firstRet, asked>>

AnalyzeAskRaise(i) ==
    /\ fpc[i] = "resolving"
    /\ CachedAskRaise(i)
    /\ AnalyzeFinish(i)
    /\ UNCHANGED <<calls, updates, analyzed_updates, putLog, firstRet, asked>>

\* main1.py:146-147: the gather completes when every coroutine returned,
\* or fails with the first exception one of them raised
GatherReturn ==
    /\ analyzed_updates = Pending
    /\ IF \E i \in DOMAIN fpc : fpc[i] = "raised"
       THEN analyzed_updates' = [state |-> "raised", results |-> <<>>]
       ELSE /\ \A i \in DOMAIN fpc : fpc[i] = "returned"
            /\ analyzed_updates' = [state |-> "ok", results |-> gather(out, order)]
    /\ UNCHANGED <<cachevars, calls, updates, fpc, out, order, putLog, firstRet, asked>>

NextFan ==
    \/ \E i \in DOMAIN updates, f \in {"text", "notext", "error"}, l2ok \in BOOLEAN :
            AnalyzeUpdate(i, f, l2ok)
    \/ \E i \in DOMAIN updates, raw \in RawTexts, l2ok \in BOOLEAN :
            AnalyzeAskReturn(i, raw, l2ok)
    \/ \E i \in DOMAIN updates : AnalyzeAskRaise(i)
    \/ GatherReturn

SpecFan == InitFan /\ [][NextFan]_vars

\* ------------------------------------------- the L1 store on its own
\* what cached_ask can pass to set_to_l1 as a response
StrippedTexts == {strip(r) : r \in RawTexts}

InitL1 ==
    /\ lru_cache_store = <<>>
    /\ putLog = <<>>
    /\ firstRet = <<>>
    /\ db = <<>>
    /\ pc = <<"idle">>
    /\ key = <<None>>
    /\ ret = <<None>>
    /\ effects = <<{}>>
    /\ asked = <<None>>
    /\ calls = 0
    /\ updates = <<>>
    /\ fpc = <<>>
    /\ out = <<>>
    /\ order = <<>>
    /\ analyzed_updates = Pending

\* a call set_to_l1(query, response)
L1Put(query, response) ==
    /\ lru_cache_store' = set_to_l1(lru_cache_store, query, response)
    /\ putLog' = Logged(putLog, query)
    /\ key' = <<query>>
    /\ ret' = <<None>>
    /\ effects' = <<{"l1w"}>>
    /\ UNCHANGED <<db, pc, calls, fanvars, firstRet, asked>>

\* a call get_from_l1(query); its result is kept in ret
L1Get(query) ==
    /\ key' = <<query>>
    /\ ret' = <<get_from_l1(lru_cache_store, query)>>
    /\ effects' = <<{"l1r"}>>
    /\ UNCHANGED <<lru_cache_store, putLog, db, pc, calls, fanvars, firstRet, asked>>

NextL1 ==
    \/ \E q \in Queries, r \in StrippedTexts : L1Put(q, r)
    \/ \E q \in Queries : L1Get(q)

SpecL1 == InitL1 /\ [][NextL1]_vars

\* ------------------------------------------------------------ properties
L1Keys == {lru_cache_store[i].q : i \in DOMAIN lru_cache_store}
Distinct(sq) == \A i, j \in DOMAIN sq : i # j => sq[i] # sq[j]

\* C3: in every reachable state, whatever the interleaving of the
\* concurrent cached_ask calls, L1 holds at most L1_CACHE_SIZE entries.
C3_CapacityInvariant == Len(lru_cache_store) <= L1_CACHE_SIZE

\* a put has arrived at a full store: more puts than the capacity
C3_Witness ==
    /\ Len(lru_cache_store) = L1_CACHE_SIZE
    /\ Cardinality(DOMAIN db \ L1Keys) > 0
    /\ \E t \in Tasks : pc[t] = "done" /\ "l1w" \in effects[t] /\ key[t] \in L1Keys

\* request t enters cached_ask(q) in this step
Begins(t, q) == pc[t] = "idle" /\ pc'[t] # "idle" /\ key'[t] = q

\* C1: single-flight: at no time are two pipeline executions for the same
\* key in flight (overlapping cached_ask calls for one uncached key share
\* one execution).
C1_SingleFlight ==
    \A t, u \in Tasks :
        (t # u /\ pc[t] = "asking" /\ pc[u] = "asking") => key[t] # key[u]

\* C2: idempotence: once cached_ask(q) has returned a text (whatever text,
\* the empty one included), a later cached_ask(q) returns that same text
\* and does not run the pipeline again (storage being up).
C2_Idempotence ==
    [][\A t \in Tasks, q \in Queries :
          (q \in DOMAIN firstRet /\ Begins(t, q) /\ pc'[t] # "failed")
              => (pc'[t] = "done" /\ ret'[t] = firstRet[q])]_vars

\* C4: write-through order: in every reachable state, a crash or a failing
\* L2 write between the two writes included, every key held in L1 is also
\* present in L2.
C4_WriteThrough == L1Keys \subseteq DOMAIN db

\* a pipeline result has been saved to both tiers, and the save of another
\* one has just failed at the L2 write
C4_Witness ==
    /\ lru_cache_store # <<>>
    /\ \E t \in Tasks : /\ pc[t] = "failed" /\ "ask" \in effects[t]
                         /\ ret[t] = <<"StorageUnavailable">>
                         /\ key[t] \notin DOMAIN db

\* C5: failures are never cached: the step in which the pipeline failure
\* reaches cached_ask's caller, and the step in which that call went to the
\* pipeline, leave L1 and L2 exactly as they were.
C5_FailuresNotCached ==
    [][\A t \in Tasks :
          \/ (pc[t] = "asking" /\ pc'[t] = "failed" /\ ret'[t] = <<"PipelineFailed">>)
          \/ (pc[t] = "idle" /\ pc'[t] = "asking")
          => (lru_cache_store' = lru_cache_store /\ db' = db)]_vars

\* a call has failed in the pipeline and neither tier has its key
C5_Witness ==
    \E t \in Tasks :
        /\ pc[t] = "failed" /\ ret[t] = <<"PipelineFailed">>
        /\ key[t] \notin DOMAIN db /\ key[t] \notin L1Keys
        /\ db # <<>> /\ lru_cache_store # <<>>

\* C6: promotion: for a key present in L2 and not in L1 (after a restart
\* too), one cached_ask returns the L2 value without running the pipeline
\* and leaves the key in L1 with that value (storage being up).
C6_Promotion ==
    [][\A t \in Tasks, q \in Queries :
          (Begins(t, q) /\ q \in DOMAIN db /\ q \notin L1Keys /\ pc'[t] # "failed")
              => /\ pc'[t] = "done"
                 /\ ret'[t] = db[q]
                 /\ DictHas(lru_cache_store', q)
                 /\ DictGet(lru_cache_store', q) = db[q]]_vars

\* C7: tier precedence: whenever the key is present in L1, cached_ask
\* returns the L1 value and does no L2 read, no L2 write and no pipeline run.
C7_L1Precedence ==
    [][\A t \in Tasks, q \in Queries :
          (Begins(t, q) /\ q \in L1Keys)
              => /\ pc'[t] = "done"
                 /\ ret'[t] = DictGet(lru_cache_store, q)
                 /\ effects'[t] \cap {"l2r", "l2w", "ask"} = {}
                 /\ db' = db]_vars

\* C8: fan-out order: the gather gives one result per item, and the i-th
\* result is the i-th item's, whatever the order the coroutines finish in.
C8_FanOutOrder ==
    /\ analyzed_updates.state # "raised"
    /\ analyzed_updates.state = "ok" =>
          /\ Len(analyzed_updates.results) = Len(updates)
          /\ \A i \in DOMAIN updates :
                /\ analyzed_updates.results[i].title = updates[i].title
                /\ analyzed_updates.results[i].link = updates[i].link
                /\ analyzed_updates.results[i] = out[i]

\* two different items, gathered, the second one having finished first
C8_Witness ==
    /\ analyzed_updates.state = "ok"
    /\ Len(updates) >= 2
    /\ updates[1] # updates[2]
    /\ order[1] # 1

\* C9: partial failure: a failing cached_ask never makes analyze_update
\* raise nor the gather fail; the gathered result of a failed item carries
\* the error, and every item whose cached_ask succeeded carries its answer.
C9_PartialFailure ==
    /\ analyzed_updates.state # "raised"
    /\ \A i \in DOMAIN fpc : fpc[i] # "raised"
    /\ analyzed_updates.state = "ok" =>
          \A i \in DOMAIN updates :
              /\ pc[i] \in {"done", "failed"}
              /\ pc[i] = "failed" =>
                    analyzed_updates.results[i].danger_analysis = <<"Error: ">> \o ret[i]
              /\ pc[i] = "done" =>
                    analyzed_updates.results[i].danger_analysis = ret[i]

\* gathered: one item failed in the pipeline, a sibling succeeded
C9_Witness ==
    /\ analyzed_updates.state = "ok"
    /\ \E i, j \in DOMAIN updates :
          /\ pc[i] = "failed" /\ ret[i] = <<"PipelineFailed">>
          /\ pc[j] = "done" /\ Truthy(ret[j])

C11_PutExistingKeepsKeys ==
    [][\A q \in Queries :
          (/\ effects'[1] = {"l1w"} /\ key'[1] = q
           /\ Len(lru_cache_store) = L1_CACHE_SIZE /\ q \in L1Keys)
              => /\ {lru_cache_store'[i].q : i \in DOMAIN lru_cache_store'} = L1Keys
                 /\ DictHas(lru_cache_store', q)]_vars

\* C12: a failing L2 read does not fail cached_ask: no call ends with the
\* storage error before it has gone to the pipeline.
C12_L2ReadFallsBack ==
    \A t \in Tasks :
        ~(pc[t] = "failed" /\ ret[t] = <<"StorageUnavailable">> /\ "ask" \notin effects[t])

\* C13: a failing L2 write after a successful pipeline run does not fail
\* cached_ask: no call that has its pipeline answer ends with the storage
\* error.
C13_L2WriteStillReturns ==
    \A t \in Tasks :
        ~(pc[t] = "failed" /\ ret[t] = <<"StorageUnavailable">> /\ "ask" \in effects[t])

\* C14: cancelling the caller of cached_ask while its pipeline run is in
\* flight does not lose the run: once the run has ended with a text, the key
\* is in L2 and in L1.
C14_CancelStillCaches ==
    \A t \in Tasks :
        (pc[t] = "abandoned" /\ asked[t] # None)
            => (key[t] \in DOMAIN db /\ key[t] \in L1Keys)

\* r is v without its leading and trailing blanks
Trimmed(v, r) ==
    /\ \E i \in 1..(Len(v) + 1), j \in 0..Len(v) :
          /\ r = SubSeq(v, i, j)
          /\ \A n \in 1..Len(v) : (n < i \/ n > j) => v[n] = " "
    /\ r # <<>> => (r[1] # " " /\ r[Len(r)] # " ")

\* the call of request t went to the pipeline and has just returned
ReturnedFromMiss(t) == pc[t] = "done" /\ "ask" \in effects[t]

C16_L2Permanence == [][DOMAIN db \subseteq DOMAIN db']_vars

\* every query is in L2 and L1, being full, has evicted one of them
C16_Witness ==
    /\ DOMAIN db = Queries
    /\ Len(lru_cache_store) = L1_CACHE_SIZE
    /\ \E q \in DOMAIN db : q \notin L1Keys

\* C17: an empty text from the generation capability is a failed pipeline
\* run: the call fails, and no empty value is stored for its key.
C17_EmptyGenerationFails ==
    \A t \in Tasks :
        (asked[t] = <<>> /\ pc[t] \in {"done", "failed"})
            => /\ pc[t] = "failed"
               /\ DictGet(lru_cache_store, key[t]) # <<>>
               /\ get_from_l2(db, key[t]) # <<>>

\* the cached_ask calls of the fan-out that are at their pipeline run
InFlight == {i \in DOMAIN pc : pc[i] = "asking"}

\* C18: bounded fan-out: the calls in flight at one time never exceed the
\* configured limit.  The code has no such setting; stated for the
\* strictest limit, one call at a time (any limit below the number of
\* items fails in the same way).
C18_BoundedFanOut == Cardinality(InFlight) <= 1

\* C19: cross-tier agreement: every key present in L1 is present in L2 with
\* the same value, overlapping calls for one key that got different texts
\* included.
C19_TiersAgree ==
    \A i \in DOMAIN lru_cache_store :
        /\ lru_cache_store[i].q \in DOMAIN db
        /\ db[lru_cache_store[i].q] = lru_cache_store[i].r

\* a pipeline run for a key has returned a text other than the first one
\* returned for that key, and has been saved
C19_Witness ==
    \E t \in Tasks :
        /\ ReturnedFromMiss(t)
        /\ key[t] \in DOMAIN firstRet /\ firstRet[key[t]] # ret[t]
        /\ DictGet(lru_cache_store, key[t]) = ret[t]

\* C20: POST /query with an empty or missing query answers with the warning
\* and never enters cached_ask: L1, L2 and the number of cached_ask calls
\* stay as they were, and the empty string is no cache key.
C20_EmptyQueryGuard ==
    [][\A t \in Tasks :
          (pc[t] = "idle" /\ pc'[t] # "idle" /\ key'[t] \notin Queries)
              => /\ pc'[t] = "done"
                 /\ ret'[t] = <<"Query is empty.">>
                 /\ key'[t] = None
                 /\ lru_cache_store' = lru_cache_store
                 /\ db' = db
                 /\ calls' = calls]_vars

\* the warning has been returned while the caches hold entries
C20_Witness ==
    /\ \E t \in Tasks : pc[t] = "done" /\ ret[t] = <<"Query is empty.">> /\ key[t] = None
    /\ db # <<>>
    /\ lru_cache_store # <<>>
    /\ EmptyQuery \notin DOMAIN db \cup L1Keys
====
